---- MODULE Spec2Model ----
(***************************************************************************)
(* Model of the request rate limiter of ws-work-sample-api                 *)
(* (src/rate-limiter.js) as it is used by the express application          *)
(* (src/unnamed/part_000).                                                 *)
(*                                                                         *)
(* A controller process is a node.js process: one thread, an event loop.   *)
(* limitRateNonCluster is synchronous, so a whole call is one step.        *)
(* limitRateCluster is async: it runs up to its next await in one step and *)
(* resumes when the store's reply to the awaited command arrives.  The     *)
(* commands of one process travel over the single connection of            *)
(* this.redis and are executed by the store in the order they were issued. *)
(* A command is executed and its reply consumed in one step; a command     *)
(* issued to an unreachable store is rejected without having been          *)
(* executed.                                                               *)
(***************************************************************************)
EXTENDS Integers, Sequences, FiniteSets, TLC

\* ------------------------------------------------------------------ bounds
MaxReq == 2
MaxQuota == 1

\* ------------------------------------------------------------- value model
\* The request paths that are tried, the controller processes that may run.
Paths == {"/a", "/b"}
Instances == {1, 2}
\* The inst of a request whose process run has ended.
Over == 0

\* redis: the reply null of GET on a missing key / a key that is absent.
Nil == -1
\* JavaScript: undefined, the value of routeLimits[path] for a missing path.
Undefined == -2

VARIABLES
    clusterMode,   \* config.clusterMode
    routeLimits,   \* config.routeLimits: path -> quota
    proc,          \* per process: "down" | "up" | "exit1" (ended by process.exit(1))
    routeCounts,   \* per process: this.routeCounts (local mode), path -> count
    store,         \* the redis keyspace: path -> value of routeCounts:<path>, or Nil
    storeUp,       \* whether the store is reachable
    queue,         \* per process: commands of this.redis issued and not yet answered
    reqs,          \* every request received so far, with its position and outcome
    peak,          \* per path: the most admission checks that were in flight at once
    store0         \* the store as it was before the first process started

vars == <<clusterMode, routeLimits, proc, routeCounts, store, storeUp,
          queue, reqs, peak, store0>>

\* --------------------------------------------------------------- helpers
\* config.routeLimits objects that are tried: none, one route, two routes.
RouteLimitChoices ==
    UNION {[D -> 0..MaxQuota] : D \in {{}, {"/a"}, {"/a", "/b"}}}

\* _.keys(config.routeLimits), in insertion order.
RECURSIVE KeysIn(_, _)
KeysIn(order, limits) ==
    IF order = <<>> THEN <<>>
    ELSE IF Head(order) \in DOMAIN limits
         THEN <<Head(order)>> \o KeysIn(Tail(order), limits)
         ELSE KeysIn(Tail(order), limits)

Keys(limits) == KeysIn(<<"/a", "/b">>, limits)

\* Faulty variant of the lookup: a missing path gets a default quota of 1.
LimitOrDefault(path) == IF path \in DOMAIN routeLimits THEN routeLimits[path] ELSE 1

\* this.routeLimits[routePath]
Limit(path) == IF path \in DOMAIN routeLimits THEN routeLimits[path] ELSE Undefined

\* JavaScript's count < limit on what the code compares: count is a number, the
\* decimal string of GET (converted to its number) or null (converted to 0);
\* limit is a number or undefined (NaN: every comparison is false).
JsLess(count, limit) ==
    IF limit = Undefined THEN FALSE
    ELSE IF count = Nil THEN 0 < limit
    ELSE count < limit

\* The three ways a handler ends: next(), or one of the two responses.
Forward == [outcome |-> "next", status |-> 0, body |-> 0]
RejectNotConfigured == [outcome |-> "unknown", status |-> 429, body |-> 400]
RejectLimitReached == [outcome |-> "quota", status |-> 429, body |-> 429]
NoOutcome == [outcome |-> "none", status |-> 0, body |-> 0]
Dropped == [outcome |-> "dropped", status |-> 0, body |-> 0]

NewRequest(i, path, pc, end) ==
    [inst |-> i, path |-> path, pc |-> pc,
     outcome |-> end.outcome, status |-> end.status, body |-> end.body]

Finish(req, end) ==
    [req EXCEPT !.pc = "done", !.outcome = end.outcome,
                !.status = end.status, !.body = end.body]

Max(a, b) == IF a >= b THEN a ELSE b

InFlight(path) ==
    Cardinality({k \in 1..Len(reqs) : reqs[k].path = path /\ reqs[k].pc # "done"})

Command(op, path, r) == [op |-> op, path |-> path, req |-> r]

\* Faulty variant of the seeding: only the first configured route is seeded.
SeedFirstOnly(keys) ==
    IF keys = <<>> THEN <<>> ELSE <<[op |-> "setnx", path |-> Head(keys), req |-> 0]>>

\* The setnx commands the constructor issues, one per configured route.
RECURSIVE SeedCommands(_)
SeedCommands(keys) ==
    IF keys = <<>> THEN <<>>
    ELSE <<Command("setnx", Head(keys), 0)>> \o SeedCommands(Tail(keys))

\* _.mapValues(config.routeLimits, () => 0)
ZeroCounts(limits) == [r \in DOMAIN limits |-> 0]

\* ------------------------------------------------------------------ Init
\* The state right after `new RateLimiter(config)` in process 1; process 2 has
\* not been started.  In cluster mode the store holds whatever earlier runs left.
Init ==
    /\ clusterMode \in BOOLEAN
    /\ routeLimits \in RouteLimitChoices
    /\ store0 \in IF clusterMode THEN [Paths -> {Nil, 1}]
                                 ELSE {[p \in Paths |-> Nil]}
    /\ store = store0
    /\ storeUp \in IF clusterMode THEN BOOLEAN ELSE {TRUE}
    /\ proc = [i \in Instances |-> IF i = 1 THEN "up" ELSE "down"]
    /\ routeCounts = [i \in Instances |->
                        IF i = 1 /\ ~clusterMode THEN ZeroCounts(routeLimits) ELSE <<>>]
    /\ queue = [i \in Instances |->
                        IF i = 1 /\ clusterMode THEN SeedCommands(Keys(routeLimits)) ELSE <<>>]
    /\ reqs = <<>>
    /\ peak = [p \in Paths |-> 0]

\* ------------------------------------------------------- process lifecycle
\* new RateLimiter(config) in a process that is started (again).
Construct(i) ==
    /\ proc[i] # "up"
    /\ proc' = [proc EXCEPT ![i] = "up"]
    /\ IF clusterMode
       THEN /\ queue' = [queue EXCEPT ![i] = SeedCommands(Keys(routeLimits))]
            /\ routeCounts' = routeCounts
       ELSE /\ routeCounts' = [routeCounts EXCEPT ![i] = ZeroCounts(routeLimits)]
            /\ queue' = queue
    /\ UNCHANGED <<clusterMode, routeLimits, store, storeUp, reqs, peak, store0>>

\* The requests of process i that have no outcome yet are lost with the process;
\* all its requests now belong to a run that is over (inst = Over).
DropInFlight(i) ==
    [k \in 1..Len(reqs) |->
        IF reqs[k].inst # i THEN reqs[k]
        ELSE [(IF reqs[k].pc # "done" THEN Finish(reqs[k], Dropped) ELSE reqs[k])
                EXCEPT !.inst = Over]]

\* The process ends: its memory (this.routeCounts, the commands not yet sent)
\* is gone, the store keeps what it holds.
Exit(i, how) ==
    /\ proc' = [proc EXCEPT ![i] = how]
    /\ queue' = [queue EXCEPT ![i] = <<>>]
    /\ routeCounts' = [routeCounts EXCEPT ![i] = <<>>]
    /\ reqs' = DropInFlight(i)
    /\ UNCHANGED <<clusterMode, routeLimits, store, storeUp, peak, store0>>

\* The process is stopped from outside (a restart, a deployment).
Shutdown(i) ==
    /\ proc[i] = "up"
    /\ Exit(i, "down")

\* ----------------------------------------------------------- local mode
\* Faulty variants of the comparison: an inclusive bound; a quota of 0 taken
\* for "no limit".
LocalUnderLimitInclusive(count, limit) == count <= limit

LocalUnderLimitFalsy(count, limit) == limit = 0 \/ count < limit

\* The comparison of limitRateNonCluster.
LocalUnderLimit(count, limit) == count < limit

\* limitRateNonCluster(req, res, next) with req.path = path.
limitRateNonCluster(i, path) ==
    /\ ~clusterMode
    /\ proc[i] = "up"
    /\ Len(reqs) < MaxReq
    /\ peak' = [peak EXCEPT ![path] = Max(@, 1)]
    /\ IF path \notin DOMAIN routeCounts[i]
       THEN /\ reqs' = Append(reqs, NewRequest(i, path, "done", RejectNotConfigured))
            /\ routeCounts' = routeCounts
       ELSE IF LocalUnderLimit(routeCounts[i][path], Limit(path))
       THEN /\ routeCounts' = [routeCounts EXCEPT ![i][path] = @ + 1]
            /\ reqs' = Append(reqs, NewRequest(i, path, "done", Forward))
       ELSE /\ reqs' = Append(reqs, NewRequest(i, path, "done", RejectLimitReached))
            /\ routeCounts' = routeCounts
    /\ UNCHANGED <<clusterMode, routeLimits, proc, store, storeUp, queue, store0>>

\* ---------------------------------------------------------- cluster mode
\* limitRateCluster(req, res, next) up to its first await: the EXISTS command
\* of _pathIsValidForLimit is issued.
limitRateCluster(i, path) ==
    /\ clusterMode
    /\ proc[i] = "up"
    /\ Len(reqs) < MaxReq
    /\ reqs' = Append(reqs, NewRequest(i, path, "exists", NoOutcome))
    /\ queue' = [queue EXCEPT ![i] = Append(@, Command("exists", path, Len(reqs) + 1))]
    /\ peak' = [peak EXCEPT ![path] = Max(@, InFlight(path) + 1)]
    /\ UNCHANGED <<clusterMode, routeLimits, proc, routeCounts, store, storeUp, store0>>

\* The store answers the oldest command of process i.
Answers(i, op) ==
    /\ proc[i] = "up"
    /\ storeUp
    /\ queue[i] # <<>>
    /\ Head(queue[i]).op = op

\* Faulty variant of the seeding command: SET key 0, which overwrites.
SetOverwrite(value) == 0

\* redis SETNX key 0: set the key only if it does not exist.
Setnx(value) == IF value = Nil THEN 0 ELSE value

\* redis EXISTS key: 1 or 0.
Exists(value) == IF value = Nil THEN 0 ELSE 1

\* Faulty variants of the increment: the counter starts over once it is
\* positive; the increment is applied twice.
IncrStartingOver(value) == IF value = Nil THEN 1 ELSE IF value >= 1 THEN 0 ELSE value + 1

IncrTwice(value) == IF value = Nil THEN 2 ELSE value + 2

\* redis INCR key: a missing key counts as 0.
Incr(value) == IF value = Nil THEN 1 ELSE value + 1

\* The reply to one of the constructor's setnx commands; nobody awaits it.
SetnxReply(i) ==
    /\ Answers(i, "setnx")
    /\ store' = [store EXCEPT ![Head(queue[i]).path] = Setnx(@)]
    /\ queue' = [queue EXCEPT ![i] = Tail(@)]
    /\ UNCHANGED <<clusterMode, routeLimits, proc, routeCounts, storeUp,
                   reqs, peak, store0>>

\* _pathIsValidForLimit: the reply of EXISTS as a boolean.
PathIsValidForLimit(value) == Exists(value) = 1

\* Faulty variant of the comparison: an inclusive bound.
ClusterUnderLimitInclusive(count, limit) ==
    IF limit = Undefined THEN FALSE
    ELSE IF count = Nil THEN 0 <= limit
    ELSE count <= limit

\* The comparison of limitRateCluster.
ClusterUnderLimit(count, limit) == JsLess(count, limit)

\* limitRateCluster resumes with the reply of EXISTS: it responds "not
\* configured", or issues the GET of _getPathCountCluster.
ExistsReply(i) ==
    /\ Answers(i, "exists")
    /\ LET c == Head(queue[i]) IN
       IF ~PathIsValidForLimit(store[c.path])
       THEN /\ reqs' = [reqs EXCEPT ![c.req] = Finish(@, RejectNotConfigured)]
            /\ queue' = [queue EXCEPT ![i] = Tail(@)]
       ELSE /\ reqs' = [reqs EXCEPT ![c.req].pc = "get"]
            /\ queue' = [queue EXCEPT ![i] = Append(Tail(@), Command("get", c.path, c.req))]
    /\ UNCHANGED <<clusterMode, routeLimits, proc, routeCounts, store, storeUp,
                   peak, store0>>

\* Faulty variant of the step after GET: the counter is incremented before the
\* comparison, so a rejected request is counted too.
GetReplyCounting(i) ==
    /\ Answers(i, "get")
    /\ LET c == Head(queue[i]) IN
       /\ store' = [store EXCEPT ![c.path] = Incr(@)]
       /\ reqs' = [reqs EXCEPT ![c.req] =
                      Finish(@, IF ClusterUnderLimit(store[c.path], Limit(c.path))
                                THEN Forward ELSE RejectLimitReached)]
    /\ queue' = [queue EXCEPT ![i] = Tail(@)]
    /\ UNCHANGED <<clusterMode, routeLimits, proc, routeCounts, storeUp,
                   peak, store0>>

\* limitRateCluster resumes with the reply of GET: it issues the INCR of
\* _incrementPathCountCluster, or responds "has reached its request limit".
GetReply(i) ==
    /\ Answers(i, "get")
    /\ LET c == Head(queue[i]) IN
       IF ClusterUnderLimit(store[c.path], Limit(c.path))
       THEN /\ reqs' = [reqs EXCEPT ![c.req].pc = "incr"]
            /\ queue' = [queue EXCEPT ![i] = Append(Tail(@), Command("incr", c.path, c.req))]
       ELSE /\ reqs' = [reqs EXCEPT ![c.req] = Finish(@, RejectLimitReached)]
            /\ queue' = [queue EXCEPT ![i] = Tail(@)]
    /\ UNCHANGED <<clusterMode, routeLimits, proc, routeCounts, store, storeUp,
                   peak, store0>>

\* Faulty variant of the increment: one counter for the whole table, every
\* seeded key is incremented.
IncrReplyAllRoutes(i) ==
    /\ Answers(i, "incr")
    /\ store' = [q \in Paths |-> IF store[q] = Nil THEN Nil ELSE store[q] + 1]
    /\ reqs' = [reqs EXCEPT ![Head(queue[i]).req] = Finish(@, Forward)]
    /\ queue' = [queue EXCEPT ![i] = Tail(@)]
    /\ UNCHANGED <<clusterMode, routeLimits, proc, routeCounts, storeUp,
                   peak, store0>>

\* limitRateCluster resumes with the reply of INCR and calls next().
IncrReply(i) ==
    /\ Answers(i, "incr")
    /\ LET c == Head(queue[i]) IN
       /\ store' = [store EXCEPT ![c.path] = Incr(@)]
       /\ reqs' = [reqs EXCEPT ![c.req] = Finish(@, Forward)]
    /\ queue' = [queue EXCEPT ![i] = Tail(@)]
    /\ UNCHANGED <<clusterMode, routeLimits, proc, routeCounts, storeUp,
                   peak, store0>>

\* Faulty variant of the failure path: the rejected command is issued again.
CommandFailRetry(i) ==
    /\ proc[i] = "up"
    /\ ~storeUp
    /\ Len(queue[i]) >= 2
    /\ queue' = [queue EXCEPT ![i] = Append(Tail(@), Head(@))]
    /\ UNCHANGED <<clusterMode, routeLimits, proc, routeCounts, store, storeUp,
                   reqs, peak, store0>>

\* Faulty variant of the failure path: the rejection is caught and the request
\* is let through (fail open), the process goes on.
CommandFailOpen(i) ==
    /\ proc[i] = "up"
    /\ ~storeUp
    /\ queue[i] # <<>>
    /\ LET c == Head(queue[i]) IN
       reqs' = IF c.req = 0 THEN reqs
               ELSE [reqs EXCEPT ![c.req] =
                        [@ EXCEPT !.pc = "done", !.outcome = "next"]]
    /\ queue' = [queue EXCEPT ![i] = Tail(@)]
    /\ UNCHANGED <<clusterMode, routeLimits, proc, routeCounts, store, storeUp,
                   peak, store0>>

\* A command of process i is rejected because the store cannot be reached.  No
\* promise of this.redis has a catch handler and express does not await the
\* middleware, so the rejection is unhandled: process.on('unhandledRejection')
\* logs it and calls process.exit(1).
CommandFail(i) ==
    /\ proc[i] = "up"
    /\ ~storeUp
    /\ queue[i] # <<>>
    /\ Exit(i, "exit1")

\* The store becomes unreachable / reachable again.
StoreGoesDown ==
    /\ clusterMode
    /\ storeUp
    /\ storeUp' = FALSE
    /\ UNCHANGED <<clusterMode, routeLimits, proc, routeCounts, store,
                   queue, reqs, peak, store0>>

StoreComesBack ==
    /\ clusterMode
    /\ ~storeUp
    /\ storeUp' = TRUE
    /\ UNCHANGED <<clusterMode, routeLimits, proc, routeCounts, store,
                   queue, reqs, peak, store0>>

\* ------------------------------------------------------------------ Next
Next ==
    \/ \E i \in Instances : Construct(i)
    \/ \E i \in Instances : Shutdown(i)
    \/ \E i \in Instances, path \in Paths : limitRateNonCluster(i, path)
    \/ \E i \in Instances, path \in Paths : limitRateCluster(i, path)
    \/ \E i \in Instances : SetnxReply(i)
    \/ \E i \in Instances : ExistsReply(i)
    \/ \E i \in Instances : GetReply(i)
    \/ \E i \in Instances : IncrReply(i)
    \/ \E i \in Instances : CommandFail(i)
    \/ StoreGoesDown
    \/ StoreComesBack

Spec == Init /\ [][Next]_vars

\* ------------------------------------------- the store written from outside
\* Somebody else writes the store: a key is set (a manual reset, another
\* application, an earlier configuration) or deleted.
ExternalSet(path, value) ==
    /\ clusterMode
    /\ storeUp
    /\ store[path] # value
    /\ store' = [store EXCEPT ![path] = value]
    /\ UNCHANGED <<clusterMode, routeLimits, proc, routeCounts, storeUp,
                   queue, reqs, peak, store0>>

ExternalDel(path) ==
    /\ clusterMode
    /\ storeUp
    /\ store[path] # Nil
    /\ store' = [store EXCEPT ![path] = Nil]
    /\ UNCHANGED <<clusterMode, routeLimits, proc, routeCounts, storeUp,
                   queue, reqs, peak, store0>>

\* The controllers with a store that is reachable and written from outside.
NextExt ==
    \/ \E i \in Instances : Construct(i)
    \/ \E i \in Instances, path \in Paths : limitRateNonCluster(i, path)
    \/ \E i \in Instances, path \in Paths : limitRateCluster(i, path)
    \/ \E i \in Instances : SetnxReply(i)
    \/ \E i \in Instances : ExistsReply(i)
    \/ \E i \in Instances : GetReply(i)
    \/ \E i \in Instances : IncrReply(i)
    \/ \E path \in Paths, value \in 0..MaxQuota : ExternalSet(path, value)
    \/ \E path \in Paths : ExternalDel(path)

\* The store starts empty and reachable: whatever else it may hold is written
\* by ExternalSet.
InitExt == Init /\ storeUp /\ store0 = [p \in Paths |-> Nil]

SpecExt == InitExt /\ [][NextExt]_vars

\* ------------------------------------------------------- what is observed
ReqIdx == 1..Len(reqs)

\* The requests process i has received on path in its current run.
ByInst(i, path) == {k \in ReqIdx : reqs[k].inst = i /\ reqs[k].path = path}

\* Those of them that were forwarded (next() was called).
AllowedBy(i, path) == {k \in ByInst(i, path) : reqs[k].outcome = "next"}

\* The requests forwarded on path by any process, in any run.
Admitted(path) ==
    Cardinality({k \in ReqIdx : reqs[k].path = path /\ reqs[k].outcome = "next"})

\* A stored value as a count: a missing key counts as 0.
Count(value) == IF value = Nil THEN 0 ELSE value

\* A request that got one of the handler's three outcomes.
Decided(k) == reqs[k].outcome \in {"next", "unknown", "quota"}

Quiescent == \A k \in ReqIdx : reqs[k].pc = "done"

\* How many requests were forwarded on path beyond its quota.
Overshoot(path) ==
    IF Admitted(path) = 0 THEN 0
    ELSE Max(0, Count(store0[path]) + Admitted(path) - routeLimits[path])

\* The processes (Over: an earlier run of one) that received requests on path.
Racers(path) == {reqs[k].inst : k \in {j \in ReqIdx : reqs[j].path = path}}

\* ------------------------------------------------------------------ claims

\* C1: in local mode a process never forwards more than N requests on a route
\* with quota N and never counts beyond N, whatever the order in which the
\* requests are handled; when it has received at most N requests on the route
\* (in particular exactly N), every one of them was forwarded.
C1_LocalNoOverAdmission ==
    ~clusterMode =>
        \A i \in Instances : \A p \in DOMAIN routeCounts[i] :
            /\ Cardinality(AllowedBy(i, p)) <= routeLimits[p]
            /\ routeCounts[i][p] <= routeLimits[p]
            /\ (Cardinality(ByInst(i, p)) <= routeLimits[p]
                    => AllowedBy(i, p) = ByInst(i, p))

\* Exactly N >= 1 requests were received on a quota-N route and all were forwarded.
C1_Witness ==
    /\ ~clusterMode
    /\ \E i \in Instances : \E p \in DOMAIN routeCounts[i] :
        /\ routeLimits[p] >= 1
        /\ Cardinality(ByInst(i, p)) = routeLimits[p]
        /\ Cardinality(AllowedBy(i, p)) = routeLimits[p]
        /\ routeCounts[i][p] = routeLimits[p]

\* C2: in local mode, within one run of a process, the k-th request on a
\* configured route with quota N is forwarded when k <= N and rejected with
\* "has reached its request limit" when k > N (N = 0 included).
C2_QuotaBoundary ==
    ~clusterMode =>
        \A k \in ReqIdx :
            (reqs[k].inst \in Instances /\ reqs[k].path \in DOMAIN routeLimits) =>
                LET earlier == Cardinality({j \in 1..(k - 1) :
                                   /\ reqs[j].inst = reqs[k].inst
                                   /\ reqs[j].path = reqs[k].path})
                IN  reqs[k].outcome =
                        IF earlier < routeLimits[reqs[k].path] THEN "next" ELSE "quota"

\* A request was forwarded and a later one on the same route was rejected.
C2_Witness ==
    /\ ~clusterMode
    /\ \E k1, k2 \in ReqIdx :
        /\ k1 < k2
        /\ reqs[k1].inst \in Instances
        /\ reqs[k1].inst = reqs[k2].inst
        /\ reqs[k1].path = reqs[k2].path
        /\ reqs[k1].outcome = "next"
        /\ reqs[k2].outcome = "quota"

\* C3 (as claimed): a request on a path that is no key of routeLimits, once the
\* handler has decided it, was rejected as "not configured".
C3_UnknownRouteAlwaysNotConfigured ==
    \A k \in ReqIdx :
        (reqs[k].path \notin DOMAIN routeLimits /\ Decided(k))
            => reqs[k].outcome = "unknown"

\* C4 (as claimed): in cluster mode the requests forwarded beyond the quota of
\* a route are at most the number of processes that received requests on it,
\* less one; a single process forwards no more than the quota.
C4_OvershootBelowInstances ==
    clusterMode =>
        \A p \in DOMAIN routeLimits :
            Overshoot(p) <= Max(0, Cardinality(Racers(p)) - 1)

\* C4 (amended): in cluster mode the requests forwarded beyond the quota of a
\* route are at most the largest number of admission checks on that route that
\* were in flight at the same time, less one.
C4_OvershootBelowConcurrency ==
    clusterMode =>
        \A p \in DOMAIN routeLimits :
            Overshoot(p) <= Max(0, peak[p] - 1)

\* One process alone forwarded a request beyond the quota.
C4_Witness ==
    /\ clusterMode
    /\ \E p \in DOMAIN routeLimits :
        /\ Overshoot(p) >= 1
        /\ Racers(p) = {1}

\* C5 (as claimed): when a store call of an admission check fails, the request
\* is not forwarded and gets a failure response of its own (a 5xx status, which
\* neither rejection carries).
C5_StoreFailureSignalled ==
    [][\A i \in Instances :
          (CommandFail(i) /\ Head(queue[i]).req # 0) =>
              LET k == Head(queue[i]).req IN
                  /\ reqs'[k].outcome \notin {"next", "unknown", "quota"}
                  /\ reqs'[k].status \in 500..599]_vars

\* C6: constructing a cluster-mode controller, and every setnx it issues,
\* leaves the value of each key the store already holds unchanged; a key that
\* was absent is absent afterwards or holds 0.
C6_SeedingKeepsCounts ==
    [][\A i \in Instances :
          (Construct(i) \/ SetnxReply(i)) =>
              \A p \in Paths :
                  IF store[p] # Nil THEN store'[p] = store[p]
                  ELSE store'[p] \in {Nil, 0}]_vars

\* Two controllers were constructed and have finished seeding against a store
\* that held a count for one configured route and none for another.
C6_Witness ==
    /\ clusterMode
    /\ \A i \in Instances : proc[i] = "up" /\ queue[i] = <<>>
    /\ \E p, q \in DOMAIN routeLimits :
        /\ store0[p] = 1 /\ store[p] = 1
        /\ store0[q] = Nil /\ store[q] = 0

\* C7: in cluster mode, once the first store call of an admission check has
\* been answered, no setnx of its process is outstanding and every configured
\* route has its key; no request on a configured route is ever rejected as
\* "not configured".
C7_SeededBeforeServed ==
    clusterMode =>
        /\ \A k \in ReqIdx :
              (reqs[k].inst \in Instances /\ reqs[k].pc # "exists") =>
                  /\ \A j \in 1..Len(queue[reqs[k].inst]) :
                        queue[reqs[k].inst][j].op # "setnx"
                  /\ \A p \in DOMAIN routeLimits : store[p] # Nil
        /\ \A k \in ReqIdx :
              reqs[k].path \in DOMAIN routeLimits => reqs[k].outcome # "unknown"

\* A request was forwarded on a route whose key the store did not hold before
\* the controllers were constructed.
C7_Witness ==
    /\ clusterMode
    /\ \E k \in ReqIdx :
        /\ reqs[k].outcome = "next"
        /\ store0[reqs[k].path] = Nil

C9_CountersStepUpByOne ==
    [][/\ \A p \in Paths :
            store[p] # Nil => store'[p] \in {store[p], store[p] + 1}
       /\ \A i \in Instances :
            \A p \in (DOMAIN routeCounts[i]) \cap (DOMAIN routeCounts'[i]) :
                routeCounts'[i][p] \in {routeCounts[i][p], routeCounts[i][p] + 1}]_vars

\* A stored counter has been raised twice.
C9_Witness ==
    /\ clusterMode
    /\ \E p \in DOMAIN routeLimits : store[p] = Count(store0[p]) + 2

C11_RejectionChangesNothing ==
    [][/\ \A k \in 1..Len(reqs') :
            (/\ reqs'[k].outcome \in {"unknown", "quota"}
             /\ (k > Len(reqs) \/ reqs[k].outcome = "none"))
                => /\ store' = store
                   /\ routeCounts' = routeCounts
                   /\ (k <= Len(reqs) => reqs[k].pc # "incr")
       /\ \A k \in ReqIdx :
            reqs[k].outcome \in {"next", "unknown", "quota"}
                => reqs'[k].outcome = reqs[k].outcome]_vars

\* One request was rejected for its quota and another as not configured.
C11_Witness ==
    \E k, j \in ReqIdx :
        /\ reqs[k].outcome = "quota"
        /\ reqs[k].path \in DOMAIN routeLimits
        /\ reqs[j].outcome = "unknown"

\* C12 (as claimed): every request that is in flight when a store call of its
\* process is rejected still ends with an outcome delivered to its caller: it
\* is forwarded, rejected, or answered with a failure status.
C12_EveryCheckIsAnswered ==
    [][\A i \in Instances :
          CommandFail(i) =>
              \A k \in ReqIdx :
                  (reqs[k].inst = i /\ reqs[k].pc # "done") =>
                      \/ reqs'[k].outcome \in {"next", "unknown", "quota"}
                      \/ reqs'[k].status >= 500]_vars

\* C13: a request on a path that is no key of routeLimits is never forwarded
\* and never gets as far as issuing an INCR, whatever the store holds under
\* routeCounts:<path> and however that key is set or deleted from outside
\* between the store calls of the request.
C13_UnconfiguredNeverAdmitted ==
    \A k \in ReqIdx :
        reqs[k].path \notin DOMAIN routeLimits =>
            /\ reqs[k].outcome # "next"
            /\ reqs[k].pc # "incr"
            /\ \A i \in Instances : \A j \in 1..Len(queue[i]) :
                  queue[i][j].req = k => queue[i][j].op # "incr"

\* A request on an unconfigured path found the key in the store (it got past
\* EXISTS), the key was then deleted from outside, and the request was rejected.
C13_Witness ==
    /\ clusterMode
    /\ \E k \in ReqIdx :
        /\ reqs[k].path \notin DOMAIN routeLimits
        /\ reqs[k].outcome = "quota"
        /\ store[reqs[k].path] = Nil

\* C14 (as claimed): the routes that have a counter are exactly the routes of
\* routeLimits: the keys of this.routeCounts of a running local-mode process,
\* and, once a running cluster-mode process has had its setnx commands
\* answered, the routeCounts:<path> keys of the store (for a table that is
\* not empty).
C14_CountersMatchQuotaTable ==
    routeLimits # <<>> =>
    /\ ~clusterMode =>
          \A i \in Instances :
              proc[i] = "up" => DOMAIN routeCounts[i] = DOMAIN routeLimits
    /\ clusterMode =>
          ((\E i \in Instances :
                /\ proc[i] = "up"
                /\ \A j \in 1..Len(queue[i]) : queue[i][j].op # "setnx")
              => {p \in Paths : store[p] # Nil} = DOMAIN routeLimits)

Min(a, b) == IF a <= b THEN a ELSE b

\* C15: constructing a local-mode controller starts every configured route at
\* 0, and the new run forwards the first N requests of a quota-N route whatever
\* earlier runs forwarded; in cluster mode neither the end of a process nor a
\* construction changes the store, the stored count stays the count at startup
\* plus the requests forwarded by all runs, and with checks one at a time the
\* runs together forward no more than the quota leaves.
C15_RestartLocalResetsSharedPersists ==
    /\ [][\A i \in Instances :
            /\ Construct(i) =>
                  IF clusterMode THEN store' = store
                  ELSE routeCounts'[i] = [p \in DOMAIN routeLimits |-> 0]
            /\ (Shutdown(i) \/ CommandFail(i)) => store' = store]_vars
    /\ [](~clusterMode =>
            \A i \in Instances : \A p \in DOMAIN routeCounts[i] :
                Cardinality(AllowedBy(i, p))
                    = Min(Cardinality(ByInst(i, p)), routeLimits[p]))
    /\ [](clusterMode =>
            \A p \in DOMAIN routeLimits :
                /\ Count(store[p]) = Count(store0[p]) + Admitted(p)
                /\ peak[p] <= 1 =>
                      Count(store0[p]) + Admitted(p)
                          <= Max(routeLimits[p], Count(store0[p])))

\* In local mode a run that is over had forwarded a request on a route, and the
\* present run of a process has forwarded one on the same route, of quota 1.
C15_Witness ==
    /\ ~clusterMode
    /\ \E k, j \in ReqIdx :
        /\ reqs[k].inst = Over /\ reqs[k].outcome = "next"
        /\ reqs[j].inst \in Instances /\ reqs[j].outcome = "next"
        /\ reqs[j].path = reqs[k].path
        /\ routeLimits[reqs[j].path] = 1
        /\ routeCounts[reqs[j].inst][reqs[j].path] = 1

\* C16 (as claimed): a controller with an empty routeLimits does not come into
\* service: no request is ever decided by it.
C16_EmptyTableServesNothing ==
    routeLimits = <<>> => \A k \in ReqIdx : ~Decided(k)

\* C17: in cluster mode, on a configured route with quota N whose stored count
\* started at c <= N and whose admission checks ran one after another, a
\* decided request is forwarded while c plus the requests forwarded before it
\* is below N and rejected with "has reached its request limit" afterwards
\* (so N - c requests are forwarded), and the stored count never exceeds N.
C17_SharedSequentialQuota ==
    clusterMode =>
        \A p \in DOMAIN routeLimits :
            (peak[p] <= 1 /\ Count(store0[p]) <= routeLimits[p]) =>
                /\ Count(store[p]) <= routeLimits[p]
                /\ \A k \in ReqIdx :
                      (reqs[k].path = p /\ Decided(k)) =>
                          LET fwd == Cardinality({j \in 1..(k - 1) :
                                         /\ reqs[j].path = p
                                         /\ reqs[j].outcome = "next"})
                          IN  reqs[k].outcome =
                                  IF Count(store0[p]) + fwd < routeLimits[p]
                                  THEN "next" ELSE "quota"

\* One process, one check at a time: a request was forwarded, the count reached
\* the quota, and the next request on the route was rejected.
C17_Witness ==
    /\ clusterMode
    /\ \E p \in DOMAIN routeLimits : \E k1, k2 \in ReqIdx :
        /\ peak[p] = 1
        /\ k1 < k2
        /\ reqs[k1].path = p /\ reqs[k1].inst = 1 /\ reqs[k1].outcome = "next"
        /\ reqs[k2].path = p /\ reqs[k2].inst = 1 /\ reqs[k2].outcome = "quota"
        /\ store[p] = routeLimits[p]

\* C18: when the store is unreachable and the oldest command of a process, a
\* store call of an admission check, is taken off its connection (it was
\* rejected), the request of that command is over and not forwarded and no
\* command of it is outstanding; a request that ended this way stays so and
\* never has a command outstanding again.
C18_NoRetryAfterFailure ==
    /\ [][\A i \in Instances :
            (/\ clusterMode /\ ~storeUp
             /\ proc[i] = "up"
             /\ queue[i] # <<>>
             /\ Head(queue[i]).req # 0
             /\ (queue'[i] = <<>> \/ Head(queue'[i]) # Head(queue[i])))
                => LET k == Head(queue[i]).req IN
                       /\ reqs'[k].pc = "done"
                       /\ reqs'[k].outcome = "dropped"
                       /\ \A j \in 1..Len(queue'[i]) : queue'[i][j].req # k]_vars
    /\ [][\A k \in ReqIdx :
            reqs[k].outcome = "dropped" => reqs'[k] = reqs[k]]_vars
    /\ [](\A k \in ReqIdx :
            reqs[k].outcome = "dropped" =>
                \A i \in Instances : \A j \in 1..Len(queue[i]) : queue[i][j].req # k)

\* A request that had got past EXISTS and GET lost its INCR to an unreachable
\* store: the process has exited with code 1, the request was not forwarded and
\* the count is as it was.
C18_Witness ==
    /\ clusterMode
    /\ proc[1] = "exit1"
    /\ ~storeUp
    /\ \E k \in ReqIdx :
        /\ reqs[k].outcome = "dropped"
        /\ reqs[k].path \in DOMAIN routeLimits
        /\ store[reqs[k].path] = 0
        /\ routeLimits[reqs[k].path] = 1

\* C19: within one rejection response the HTTP status and the statusCode field
\* of the body agree (and the two kinds of rejection carry different codes).
C19_StatusAndBodyAgree ==
    \A k \in ReqIdx :
        reqs[k].outcome \in {"unknown", "quota"} => reqs[k].status = reqs[k].body

\* C20: an admission check on route r changes at most the counter of r.  In
\* local mode the step of a check on r at process i leaves every other counter
\* of i and all counters of the other process as they were; in shared mode the
\* invocation changes no stored count and the step that consumes a store call
\* of a check on r changes no stored count but that of r.  No step changes the
\* quota table.  Hence a limit-reached rejection on a configured route r is due
\* to r's own counter, which is then at or above r's quota.
C20_CheckTouchesOnlyItsRoute ==
    /\ [][routeLimits' = routeLimits]_vars
    /\ [][Len(reqs') = Len(reqs) + 1 =>
            LET k == Len(reqs')
                r == reqs'[k].path
                i == reqs'[k].inst
            IN  /\ store' = store
                /\ \A j \in Instances :
                      /\ DOMAIN routeCounts'[j] = DOMAIN routeCounts[j]
                      /\ \A q \in DOMAIN routeCounts[j] :
                            (j # i \/ q # r) =>
                                routeCounts'[j][q] = routeCounts[j][q]]_vars
    /\ [][\A i \in Instances :
            (/\ queue[i] # <<>>
             /\ Head(queue[i]).req # 0
             /\ queue'[i] = Tail(queue[i]))
                => /\ routeCounts' = routeCounts
                   /\ \A q \in Paths :
                         q # Head(queue[i]).path => store'[q] = store[q]]_vars
    /\ [](\A k \in ReqIdx :
            (/\ reqs[k].outcome = "quota"
             /\ reqs[k].path \in DOMAIN routeLimits
             /\ reqs[k].inst # Over) =>
                IF clusterMode
                THEN Count(store[reqs[k].path]) >= routeLimits[reqs[k].path]
                ELSE routeCounts[reqs[k].inst][reqs[k].path]
                         >= routeLimits[reqs[k].path])

\* One configured route is exhausted and was refused; a later request on the
\* other configured route, whose quota is not used up, was forwarded.
C20_Witness ==
    \E k1, k2 \in ReqIdx :
        /\ k1 < k2
        /\ reqs[k1].path # reqs[k2].path
        /\ {reqs[k1].path, reqs[k2].path} \subseteq DOMAIN routeLimits
        /\ reqs[k1].outcome = "quota"
        /\ reqs[k2].outcome = "next"
        /\ reqs[k2].inst # Over
        /\ IF clusterMode
           THEN store[reqs[k2].path] = 1
           ELSE routeCounts[reqs[k2].inst][reqs[k2].path] = 1

====
